---- MODULE Spec2Model ----
(***************************************************************************)
(* Reminder lifecycle engine of shzorik_bot: the note store, the four      *)
(* reminder-delivery entry points (the in-process job of main.py, the      *)
(* cloud cron function, the send_reminders.py script and the APScheduler   *)
(* check_reminders job) and the channel-post handlers that create notes.   *)
(*                                                                         *)
(* Time is counted in units of 5 minutes: 20 minutes = 4, 5 minutes = 1,   *)
(* 1 hour = 12, 24 hours = 288.                                            *)
(***************************************************************************)
EXTENDS Integers, Sequences, FiniteSets, TLC

\* ------------------------------------------------------------- bounds
\* The length of a run, counted in environment events: posts that store a
\* note, clock steps and ticks started.
MaxEvents == 4

\* ------------------------------------------------- program constants
\* timedelta(minutes=20), main.py send_reminders_job
JobLookback == 4
\* timedelta(minutes=5), main.py send_reminders_job
JobLookahead == 1
\* timedelta(hours=1), cron_function.py send_reminders
CronLookback == 12
\* timedelta(minutes=5), cron_function.py send_reminders
CronLookahead == 1
\* timedelta(hours=24), send_reminders.py main
ScriptLookahead == 288
\* timedelta(days=1), check_reminders
CheckLookahead == 288
\* timedelta(days=1), main.py handle_channel_post
Day == 288

\* Chat identities: note owners (channels or users).
Chats == {1, 2}
\* TELEGRAM_CHANNEL_ID of the send_reminders.py script.
CHANNEL_ID_RAW == 1

\* The delivery entry points, each one running instance.
Schedulers == {"job", "cron", "script", "check"}

\* The ids the store can hand out in a run.
Ids == 1..MaxEvents

VARIABLES
    now,         \* current instant
    notes,       \* the notes table: id -> [user_id, reminder_date, reminder_sent]
    sched,       \* per entry point: position and locals of its current/last tick
    dispatched,  \* history: notifications the bot accepted for sending
    markHist,    \* history: per id, the returns of mark_reminder_sent on an existing row
    markUnknown, \* history: the returns of mark_reminder_sent on unknown ids
    conv_state,  \* the ConversationHandler's state for the user's private chat
    user_data,   \* context.user_data of the user: key -> value
    chat,        \* the private chat: bot messages shown, delete_message calls
    hist,        \* history of the dialog: sessions started, how the last one ended
    post         \* history: the last channel post handled and the bot's answer

\* The state of the reminder dialog.
dialog == <<conv_state, user_data, chat, hist>>

vars == <<now, notes, sched, dispatched, markHist, markUnknown, dialog, post>>

\* Ticks started so far, over all entry points.
Ticks == sched["job"].tick + sched["cron"].tick + sched["script"].tick + sched["check"].tick

\* Environment events so far; a run of the model has at most MaxEvents.
Events == now + Len(notes) + Ticks

Range(q) == {q[k] : k \in DOMAIN q}

\* ------------------------------------------------------------ the store
\* add_note: inserts a row with reminder_sent = false; ids are 1, 2, ...
add_note(ns, user_id, reminder_date) ==
    Append(ns, [user_id |-> user_id, reminder_date |-> reminder_date,
                reminder_sent |-> FALSE])

RECURSIVE OrderByDue(_, _)
OrderByDue(ns, S) ==
    IF S = {} THEN <<>>
    ELSE LET m == CHOOSE x \in S : \A y \in S :
                     \/ ns[x].reminder_date < ns[y].reminder_date
                     \/ (ns[x].reminder_date = ns[y].reminder_date /\ x <= y)
         IN <<m>> \o OrderByDue(ns, S \ {m})

\* get_upcoming_reminders_window: the rows due in [start, end], both bounds
\* included, unsent ones only when only_unsent; by due instant, then id.
get_upcoming_reminders_window(ns, start, end, only_unsent) ==
    OrderByDue(ns, {n \in DOMAIN ns :
                      /\ start <= ns[n].reminder_date
                      /\ ns[n].reminder_date <= end
                      /\ (only_unsent => ~ns[n].reminder_sent)})

\* mark_reminder_sent returning whether the row was found.
mark_reminder_sent_found(ns, id) == id \in DOMAIN ns

\* mark_reminder_sent: one conditional update; its return value ...
mark_reminder_sent_ok(ns, id) == id \in DOMAIN ns /\ ~ns[id].reminder_sent

\* ... and the table after it.
mark_reminder_sent(ns, id) ==
    IF mark_reminder_sent_ok(ns, id)
    THEN [ns EXCEPT ![id].reminder_sent = TRUE]
    ELSE ns

\* The history of one mark_reminder_sent(id) call that returned.
LogMark(ns, id) ==
    IF id \in DOMAIN ns
    THEN /\ markHist' = [markHist EXCEPT ![id] = Append(@, mark_reminder_sent_ok(ns, id))]
         /\ UNCHANGED markUnknown
    ELSE /\ markUnknown' = markUnknown \cup {mark_reminder_sent_ok(ns, id)}
         /\ UNCHANGED markHist

\* ------------------------------------------------------ dictionaries
\* A Python dict as a function from its keys; dict.clear() leaves EmptyDict.
EmptyDict == [k \in {} |-> 0]
\* d[k] = v
Put(d, k, v) == [x \in DOMAIN d \cup {k} |-> IF x = k THEN v ELSE d[x]]
\* d.get(k, default)
Get(d, k, default) == IF k \in DOMAIN d THEN d[k] ELSE default

\* No channel post handled yet.
NoPost == [by |-> "none", chat |-> 0, tag |-> FALSE,
           dt |-> [kind |-> "none", at |-> 0], reply |-> "none"]

\* ------------------------------------------------------------ Init
IdleTick == [pc |-> "idle", upcoming |-> <<>>, i |-> 1, attempted |-> {},
             failed |-> {}, marked |-> {}, raised |-> {}, qfail |-> FALSE,
             tick |-> 0, before |-> {}]

Init ==
    /\ now = 0
    /\ notes = <<>>
    /\ sched = [s \in Schedulers |-> IdleTick]
    /\ dispatched = {}
    /\ markHist = [id \in Ids |-> <<>>]
    /\ markUnknown = {}
    /\ conv_state = "END"
    /\ user_data = EmptyDict
    /\ chat = [next |-> 1, live |-> {}, retracted |-> {}]
    /\ hist = [events |-> 0, sessions |-> 0, outcome |-> "none", checkedAt |-> 0]
    /\ post = NoPost

\* ------------------------------------------------------------ time
Advance ==
    /\ Events < MaxEvents
    /\ now' = now + 1
    /\ UNCHANGED <<notes, sched, dispatched, markHist, markUnknown, dialog, post>>

\* ------------------------------------------------------- note creation
\* The date/time token of an inbound post: absent ("none"), present but
\* rejected by strptime ("malformed"), or a valid instant.
DateTokens(instants) ==
    {[kind |-> "none", at |-> 0], [kind |-> "malformed", at |-> 0]}
        \cup {[kind |-> "valid", at |-> x] : x \in instants}

\* The event instants the posts of the model carry.
EventInputs == {now + Day - 1, now + Day}
LegacyEventInputs == {now - JobLookback - 1}

\* handle_channel_post storing a post whether it carries the tag or not.
handle_channel_post_untagged(chat_id, tag, dt) ==
    /\ Events < MaxEvents
    /\ IF dt.kind = "none" THEN UNCHANGED notes
       ELSE IF dt.kind = "malformed" THEN UNCHANGED notes
       ELSE IF dt.at < now + Day THEN UNCHANGED notes
       ELSE \/ notes' = add_note(notes, chat_id, dt.at - Day)
            \/ UNCHANGED notes
    /\ UNCHANGED <<now, sched, dispatched, markHist, markUnknown, dialog>>

\* handle_channel_post without the check of the event against now + 1 day.
handle_channel_post_no_lead_check(chat_id, tag, dt) ==
    /\ Events < MaxEvents
    /\ IF ~tag \/ dt.kind = "none" THEN UNCHANGED notes
       ELSE IF dt.kind = "malformed" THEN UNCHANGED notes
       ELSE \/ notes' = add_note(notes, chat_id, dt.at - Day)
            \/ UNCHANGED notes
    /\ UNCHANGED <<now, sched, dispatched, markHist, markUnknown, dialog>>

\* main.py handle_channel_post: a post with #напоминание and a valid
\* @HH:MM DD-MM-YYYY at least a day ahead is stored with the notify
\* instant event - 1 day; every other post, and a failing store, stores
\* nothing.
handle_channel_post(chat_id, tag, dt) ==
    /\ Events < MaxEvents
    /\ IF ~tag \/ dt.kind = "none" THEN UNCHANGED notes
       ELSE IF dt.kind = "malformed" THEN UNCHANGED notes
       ELSE IF dt.at < now + Day THEN UNCHANGED notes
       ELSE \/ notes' = add_note(notes, chat_id, dt.at - Day)
            \/ UNCHANGED notes
    /\ UNCHANGED <<now, sched, dispatched, markHist, markUnknown, dialog>>

ChannelPost ==
    \E chat_id \in Chats, tag \in BOOLEAN, dt \in DateTokens(EventInputs) :
        handle_channel_post(chat_id, tag, dt) /\ UNCHANGED post

\* parse_reminder of the older bot: the reminder date of a text, None
\* when there is no token or strptime rejects it.
parse_reminder(dt) == IF dt.kind = "valid" THEN dt.at ELSE "None"

\* The older bot's handle_channel_post: parse_reminder, then add_note with
\* the parsed instant itself as reminder_date.
legacy_handle_channel_post(channel_id, tag, dt) ==
    /\ Events < MaxEvents
    /\ IF ~tag \/ dt.kind # "valid" THEN UNCHANGED notes
       ELSE notes' = add_note(notes, channel_id, parse_reminder(dt))
    /\ UNCHANGED <<now, sched, dispatched, markHist, markUnknown, dialog>>

LegacyChannelPost ==
    \E channel_id \in Chats, tag \in BOOLEAN, dt \in DateTokens(LegacyEventInputs) :
        legacy_handle_channel_post(channel_id, tag, dt) /\ UNCHANGED post

\* ---- the channel posts on their own, with the bot's answers
\* What main.py handle_channel_post sends to the channel: nothing for a
\* post it ignores, "Ошибка при сохранении напоминания." when strptime or
\* the store raises, "Дата события должна быть хотя бы через сутки." for
\* an event too soon, "Напоминание сохранено." after add_note.
channel_reply(tag, dt, stored) ==
    IF ~tag \/ dt.kind = "none" THEN "none"
    ELSE IF dt.kind = "malformed" THEN "error"
    ELSE IF dt.at < now + Day THEN "too_soon"
    ELSE IF stored THEN "saved"
    ELSE "error"

\* What the older bot's handle_channel_post replies: "Напоминание
\* сохранено" after add_note, nothing otherwise.
legacy_channel_reply(tag, dt, stored) == IF stored THEN "saved" ELSE "none"

PostMain ==
    \E chat_id \in Chats, tag \in BOOLEAN, dt \in DateTokens(EventInputs) :
        /\ handle_channel_post(chat_id, tag, dt)
        /\ post' = [by |-> "main", chat |-> chat_id, tag |-> tag, dt |-> dt,
                    reply |-> channel_reply(tag, dt, notes' # notes)]

PostLegacy ==
    \E channel_id \in Chats, tag \in BOOLEAN, dt \in DateTokens(LegacyEventInputs) :
        /\ legacy_handle_channel_post(channel_id, tag, dt)
        /\ post' = [by |-> "legacy", chat |-> channel_id, tag |-> tag, dt |-> dt,
                    reply |-> legacy_channel_reply(tag, dt, notes' # notes)]

NextPost ==
    \/ Advance
    \/ PostMain
    \/ PostLegacy

SpecPost == Init /\ [][NextPost]_vars

\* ------------------------------------------------- the delivery tick
\* The steps shared by the four entry points.  A tick is: query the window,
\* then for each note: send, and after a successful send mark it sent.

\* The position after the body of the loop for the current note.
NextNote(t) ==
    IF t.i + 1 > Len(t.upcoming)
    THEN [t EXCEPT !.pc = "idle", !.i = t.i + 1]
    ELSE [t EXCEPT !.pc = "send", !.i = t.i + 1]

\* TickQuery with no handler around the query: a failing store takes the
\* entry point down.
TickQueryCrashing(s, start, end) ==
    /\ sched[s].pc = "idle"
    /\ Events < MaxEvents
    /\ LET fresh == [IdleTick EXCEPT !.tick = sched[s].tick + 1,
                                     !.before = sched[s].before \cup sched[s].failed]
       IN \/ LET up == get_upcoming_reminders_window(notes, start, end, TRUE)
             IN sched' = [sched EXCEPT ![s] =
                    [fresh EXCEPT !.pc = IF up = <<>> THEN "idle" ELSE "send",
                                  !.upcoming = up]]
          \/ sched' = [sched EXCEPT ![s] = [fresh EXCEPT !.qfail = TRUE, !.pc = "crashed"]]
    /\ UNCHANGED <<now, notes, dispatched, markHist, markUnknown, dialog, post>>

\* The window query that opens a tick; a failing store ends the tick.
\* The tick's bookkeeping starts afresh: tick counts the ticks of s, before
\* collects the notes whose send failed in an earlier tick of s.
TickQuery(s, start, end) ==
    /\ sched[s].pc = "idle"
    /\ Events < MaxEvents
    /\ LET fresh == [IdleTick EXCEPT !.tick = sched[s].tick + 1,
                                     !.before = sched[s].before \cup sched[s].failed]
       IN \/ LET up == get_upcoming_reminders_window(notes, start, end, TRUE)
             IN sched' = [sched EXCEPT ![s] =
                    [fresh EXCEPT !.pc = IF up = <<>> THEN "idle" ELSE "send",
                                  !.upcoming = up]]
          \/ sched' = [sched EXCEPT ![s] = [fresh EXCEPT !.qfail = TRUE]]
    /\ UNCHANGED <<now, notes, dispatched, markHist, markUnknown, dialog, post>>

\* How many notifications for note n the entry point s has sent so far.
SentBy(s, n) == Cardinality({d \in dispatched : d.by = s /\ d.note = n})

\* TickSend with a failed send falling through to mark_reminder_sent.
TickSendThenMarkAnyway(s, chat_id) ==
    /\ sched[s].pc = "send"
    /\ LET t == sched[s]
           n == t.upcoming[t.i]
           a == [t EXCEPT !.attempted = @ \cup {n}]
       IN \/ /\ dispatched' = dispatched \cup
                     {[note |-> n, by |-> s, chat |-> chat_id, nth |-> SentBy(s, n) + 1]}
             /\ sched' = [sched EXCEPT ![s] = [a EXCEPT !.pc = "mark"]]
          \/ /\ sched' = [sched EXCEPT ![s] = [a EXCEPT !.pc = "mark", !.failed = @ \cup {n}]]
             /\ UNCHANGED dispatched
    /\ UNCHANGED <<now, notes, markHist, markUnknown, dialog, post>>

\* TickSend with the try/except around the whole loop: a failed send ends
\* the tick.
TickSendAbortsTick(s, chat_id) ==
    /\ sched[s].pc = "send"
    /\ LET t == sched[s]
           n == t.upcoming[t.i]
           a == [t EXCEPT !.attempted = @ \cup {n}]
       IN \/ /\ dispatched' = dispatched \cup
                     {[note |-> n, by |-> s, chat |-> chat_id, nth |-> SentBy(s, n) + 1]}
             /\ sched' = [sched EXCEPT ![s] = [a EXCEPT !.pc = "mark"]]
          \/ /\ sched' = [sched EXCEPT ![s] = [a EXCEPT !.pc = "idle", !.failed = @ \cup {n}]]
             /\ UNCHANGED dispatched
    /\ UNCHANGED <<now, notes, markHist, markUnknown, dialog, post>>

\* TickSend with the except clause resetting the note to unsent "for retry".
TickSendResetsFlag(s, chat_id) ==
    /\ sched[s].pc = "send"
    /\ LET t == sched[s]
           n == t.upcoming[t.i]
           a == [t EXCEPT !.attempted = @ \cup {n}]
       IN \/ /\ dispatched' = dispatched \cup
                     {[note |-> n, by |-> s, chat |-> chat_id, nth |-> SentBy(s, n) + 1]}
             /\ sched' = [sched EXCEPT ![s] = [a EXCEPT !.pc = "mark"]]
             /\ UNCHANGED notes
          \/ /\ sched' = [sched EXCEPT ![s] = NextNote([a EXCEPT !.failed = @ \cup {n}])]
             /\ notes' = [notes EXCEPT ![n].reminder_sent = FALSE]
             /\ UNCHANGED dispatched
    /\ UNCHANGED <<now, markHist, markUnknown, dialog, post>>

\* bot.send_message(chat_id, ...) for the current note: accepted, or it
\* raises and the except clause of the loop body takes over.
TickSend(s, chat_id) ==
    /\ sched[s].pc = "send"
    /\ LET t == sched[s]
           n == t.upcoming[t.i]
           a == [t EXCEPT !.attempted = @ \cup {n}]
       IN \/ /\ dispatched' = dispatched \cup
                     {[note |-> n, by |-> s, chat |-> chat_id, nth |-> SentBy(s, n) + 1]}
             /\ sched' = [sched EXCEPT ![s] = [a EXCEPT !.pc = "mark"]]
          \/ /\ sched' = [sched EXCEPT ![s] = NextNote([a EXCEPT !.failed = @ \cup {n}])]
             /\ UNCHANGED dispatched
    /\ UNCHANGED <<now, notes, markHist, markUnknown, dialog, post>>

\* mark_reminder_sent(note.id) after the send: it returns, or the store
\* raises and the except clause of the loop body takes over.
TickMark(s) ==
    /\ sched[s].pc = "mark"
    /\ LET t == sched[s]
           n == t.upcoming[t.i]
       IN \/ /\ notes' = mark_reminder_sent(notes, n)
             /\ LogMark(notes, n)
             /\ sched' = [sched EXCEPT ![s] = NextNote([t EXCEPT !.marked = @ \cup {n}])]
          \/ /\ sched' = [sched EXCEPT ![s] = NextNote([t EXCEPT !.raised = @ \cup {n}])]
             /\ UNCHANGED <<notes, markHist, markUnknown>>
    /\ UNCHANGED <<now, dispatched, dialog, post>>

\* The chat the current note of s belongs to.
NoteOwner(s) == notes[sched[s].upcoming[sched[s].i]].user_id

\* send_reminders_job querying from now on only, without the lookback.
send_reminders_job_query_no_lookback == TickQuery("job", now, now + JobLookahead)

\* main.py send_reminders_job
send_reminders_job_query == TickQuery("job", now - JobLookback, now + JobLookahead)
send_reminders_job_send == sched["job"].pc = "send" /\ TickSend("job", NoteOwner("job"))
send_reminders_job_mark == TickMark("job")

\* cron_function.py send_reminders
send_reminders_query == TickQuery("cron", now - CronLookback, now + CronLookahead)
send_reminders_send == sched["cron"].pc = "send" /\ TickSend("cron", NoteOwner("cron"))
send_reminders_mark == TickMark("cron")

\* send_reminders.py main
parse_channel_id(raw) == raw
main_query == TickQuery("script", now, now + ScriptLookahead)
main_send == TickSend("script", parse_channel_id(CHANNEL_ID_RAW))
main_mark == TickMark("script")

\* check_reminders of the older bot
check_reminders_query == TickQuery("check", now, now + CheckLookahead)
check_reminders_send == sched["check"].pc = "send" /\ TickSend("check", NoteOwner("check"))
check_reminders_mark == TickMark("check")

\* ------------------------------------------------ the reminder dialog
\* main.py: the ConversationHandler of one user in the private chat with
\* the bot, its handlers and context.user_data.

\* The length of a run of the dialog, counted in its events: updates that a
\* handler answers with more than a reply, clock steps and timeouts.
MaxDialogEvents == 7
\* delete_message calls that fail in one cleanup.
MaxDeleteFailures == 1

\* Europe/Moscow, the default of APP_TZ: UTC+3 hours.
TzOffset == 36
\* min_date = today + timedelta(days=1)
MinDateAhead == 1
\* max_date = today + timedelta(days=365)
MaxDateAhead == 365
\* conversation_timeout = 60*30 seconds
ConversationTimeout == 6
\* update.effective_chat.id of the private chat
USER_CHAT_ID == 9

\* datetime.now(APP_TZ), as the wall clock reads it
LocalNow == now + TzOffset
\* date.today(), as a day number
today == LocalNow \div Day
\* datetime(year, month, day, hour, minute, tzinfo=APP_TZ), as the wall
\* clock reads it
WallClock(day, hour, minute) == day * Day + hour * (Day \div 24) + minute \div 5
\* x.astimezone(ZoneInfo("UTC")): the instant of a wall clock reading
astimezone_utc(local) == local - TzOffset
\* The event the user_data u describes.
event_dt(u) == WallClock(u["event_date"], u["event_hour"], u["event_minute"])

\* ---- updates
NoData == [kind |-> "", n |-> 0]
\* context.args of /start: nothing, notify_<not a number>, notify_<id>
Payloads == {[kind |-> "none", n |-> 0], [kind |-> "bad", n |-> 0]}
                \cup {[kind |-> "notify", n |-> c] : c \in Chats}
\* The days a DAY# button can carry; a keyboard rendered on an earlier day
\* still offers days that are out of range by now.
DayInputs == {today, today + MinDateAhead, today + MaxDateAhead, today + MaxDateAhead + 1}
CallbackData == {[kind |-> k, n |-> 0] : k \in {"IGNORE", "CANCEL", "CAL_PREV", "CAL_NEXT", "CONFIRM_SAVE"}}
                    \cup {[kind |-> "DAY", n |-> d] : d \in DayInputs}
\* The texts a user types; "/cancel" is the cancel command.
Texts == {" ", "/cancel", "03:00", "03:60", "25:00"}
Updates ==
    {[type |-> "message", text |-> "/start", data |-> p] : p \in Payloads}
        \cup {[type |-> "message", text |-> t, data |-> NoData] : t \in Texts}
        \cup {[type |-> "callback_query", text |-> "", data |-> d] : d \in CallbackData}

\* A request to cancel: the inline button or the /cancel command.
IsCancel(upd) ==
    \/ upd.type = "message" /\ upd.text = "/cancel"
    \/ upd.type = "callback_query" /\ upd.data.kind = "CANCEL"

\* str.strip() leaving the text as it is
strip_nothing(text) == text
\* str.strip()
strip(text) == IF text = " " THEN "" ELSE text
\* re.match(r"^([0-2]?\d):([0-5]\d)$", text): the groups, none without a match
re_match(text) ==
    CASE text = "03:00" -> <<[hour |-> 3, minute |-> 0]>>
      [] text = "25:00" -> <<[hour |-> 25, minute |-> 0]>>
      [] OTHER -> <<>>

\* ---- the ConversationHandler
\* Handler with the Confirm buttons still answered after the conversation
\* has ended.
HandlerStaleSave(state, upd) ==
    IF upd.type = "message" /\ upd.text = "/start" THEN "start_command"
    ELSE IF /\ state \in {"CONFIRM", "END"} /\ upd.type = "callback_query"
            /\ upd.data.kind \in {"CONFIRM_SAVE", "CANCEL"}
         THEN "callback_confirm_save"
    ELSE IF state = "END" THEN "none"
    ELSE IF /\ state = "CHOOSE_DATE" /\ upd.type = "callback_query"
            /\ upd.data.kind \in {"CAL_PREV", "CAL_NEXT", "DAY", "IGNORE", "CANCEL"}
         THEN "callback_calendar"
    ELSE IF state = "INPUT_TIME" /\ upd.type = "message" THEN "input_time_handler"
    ELSE IF state = "INPUT_TEXT" /\ upd.type = "message" THEN "input_text_handler"
    ELSE IF upd.type = "message" /\ upd.text = "/cancel" THEN "cancel_handler"
    ELSE "none"

\* The handler check_update selects: with allow_reentry the entry point
\* first, then the handlers of the current state in their order (filters.TEXT
\* takes commands too), then the fallbacks; "none" when nothing matches.
Handler(state, upd) ==
    IF upd.type = "message" /\ upd.text = "/start" THEN "start_command"
    ELSE IF state = "END" THEN "none"
    ELSE IF /\ state = "CHOOSE_DATE" /\ upd.type = "callback_query"
            /\ upd.data.kind \in {"CAL_PREV", "CAL_NEXT", "DAY", "IGNORE", "CANCEL"}
         THEN "callback_calendar"
    ELSE IF state = "INPUT_TIME" /\ upd.type = "message" THEN "input_time_handler"
    ELSE IF state = "INPUT_TEXT" /\ upd.type = "message" THEN "input_text_handler"
    ELSE IF /\ state = "CONFIRM" /\ upd.type = "callback_query"
            /\ upd.data.kind \in {"CONFIRM_SAVE", "CANCEL"}
         THEN "callback_confirm_save"
    ELSE IF upd.type = "message" /\ upd.text = "/cancel" THEN "cancel_handler"
    ELSE "none"

\* The history after one more event of the dialog.
Handled == [hist EXCEPT !.events = @ + 1]

\* ---- messages
\* bot.send_message in the private chat: the new message has id c.next.
Sent(c) == [c EXCEPT !.next = @ + 1, !.live = @ \cup {c.next}]
\* send_and_track: ud.setdefault("msg_ids", []).append(msg.message_id)
Track(u, mid) == Put(u, "msg_ids", Append(Get(u, "msg_ids", <<>>), mid))

\* The ids cleanup_messages calls delete_message for, final_id ignored.
RetractableAll(u, keep_final) == Range(Get(u, "msg_ids", <<>>))

\* The ids cleanup_messages calls delete_message for.
Retractable(u, keep_final) ==
    {mid \in Range(Get(u, "msg_ids", <<>>)) :
        ~(keep_final /\ "final_message_id" \in DOMAIN u /\ mid = u["final_message_id"])}

\* cleanup_messages with the try around the whole loop: the first failing
\* delete_message ends the loop and msg_ids is not emptied.
cleanup_messages_aborting(u, c, keep_final) ==
    IF "dialog_chat_id" \notin DOMAIN u
    THEN user_data' = u /\ chat' = c
    ELSE \E failed \in SUBSET Retractable(u, keep_final) :
            /\ Cardinality(failed) <= MaxDeleteFailures
            /\ IF failed = {}
               THEN /\ user_data' = Put(u, "msg_ids", <<>>)
                    /\ chat' = [c EXCEPT !.live = @ \ Retractable(u, keep_final),
                                         !.retracted = @ \cup Retractable(u, keep_final)]
               ELSE LET first == CHOOSE m \in failed : \A x \in failed : m <= x
                        tried == {mid \in Retractable(u, keep_final) : mid <= first}
                    IN /\ user_data' = u
                       /\ chat' = [c EXCEPT !.live = @ \ (tried \ {first}),
                                            !.retracted = @ \cup tried]

\* cleanup_messages on user_data u and chat c: every tracked message but
\* the final one gets a delete_message call, which may fail; msg_ids is
\* emptied.
cleanup_messages(u, c, keep_final) ==
    IF "dialog_chat_id" \notin DOMAIN u
    THEN user_data' = u /\ chat' = c
    ELSE /\ user_data' = Put(u, "msg_ids", <<>>)
         /\ \E failed \in SUBSET Retractable(u, keep_final) :
               /\ Cardinality(failed) <= MaxDeleteFailures
               /\ chat' = [c EXCEPT !.live = @ \ (Retractable(u, keep_final) \ failed),
                                    !.retracted = @ \cup Retractable(u, keep_final)]

\* The history with the outcome of the step: how the conversation ended
\* ("saved", "cancelled", "failed", "db_error", "timeout"); what was turned
\* down ("out_of_range", "bad_time", "too_soon", "empty_text"); "navigated" for a change of
\* the month shown; "none" otherwise.
Ended(h, outcome) == [h EXCEPT !.outcome = outcome]

\* The frame of every dialog step: the scheduler's state is left alone.
DialogFrame == UNCHANGED <<now, sched, dispatched, markHist, markUnknown, post>>

\* A handler that only replies (or does nothing) and keeps the state.
Stay(upd) == UNCHANGED dialog

\* ---- start_command
\* /start notify_<id> opens a session: user_data is cleared and refilled,
\* the calendar is sent and tracked.  Any other /start only replies.
start_command(upd) ==
    /\ Handler(conv_state, upd) = "start_command"
    /\ hist.events < MaxDialogEvents
    /\ IF upd.data.kind = "notify"
       THEN /\ LET u == Put(Put(Put(EmptyDict, "target_channel_id", upd.data.n),
                                "dialog_chat_id", USER_CHAT_ID), "msg_ids", <<>>)
               IN /\ user_data' = Track(u, chat.next)
                  /\ chat' = Sent(chat)
            /\ conv_state' = "CHOOSE_DATE"
            /\ hist' = [Handled EXCEPT !.sessions = @ + 1, !.outcome = "none"]
       ELSE Stay(upd)
    /\ UNCHANGED notes
    /\ DialogFrame

\* ---- callback_calendar
\* chosen < min_date or chosen > max_date, with the lower bound left out
out_of_range_above_only(chosen) == chosen > today + MaxDateAhead
\* chosen < min_date or chosen > max_date
out_of_range(chosen) ==
    chosen < today + MinDateAhead \/ chosen > today + MaxDateAhead

callback_calendar(upd) ==
    /\ Handler(conv_state, upd) = "callback_calendar"
    /\ hist.events < MaxDialogEvents
    /\ IF upd.data.kind = "CANCEL"
       THEN /\ cleanup_messages(user_data, chat, TRUE)
            /\ conv_state' = "END"
            /\ hist' = Ended(Handled, "cancelled")
       ELSE IF upd.data.kind \in {"CAL_PREV", "CAL_NEXT"}
       THEN /\ conv_state' = "CHOOSE_DATE"
            /\ hist' = Ended(Handled, "navigated")
            /\ UNCHANGED <<user_data, chat>>
       ELSE IF upd.data.kind = "DAY" /\ out_of_range(upd.data.n)
       THEN /\ conv_state' = "CHOOSE_DATE"
            /\ hist' = Ended(Handled, "out_of_range")
            /\ UNCHANGED <<user_data, chat>>
       ELSE IF upd.data.kind = "DAY"
       THEN /\ user_data' = Put(user_data, "event_date", upd.data.n)
            /\ conv_state' = "INPUT_TIME"
            /\ hist' = Ended(Handled, "none")
            /\ UNCHANGED chat
       ELSE Stay(upd)
    /\ UNCHANGED notes
    /\ DialogFrame

\* ---- input_time_handler
\* dt < now + timedelta(days=1), with the check left out
lead_time_ignored(dt) == FALSE
\* dt < now + timedelta(days=1)
lead_time_violated(dt) == dt < LocalNow + Day

\* The state returned after "Введите другое время", were it the calendar's
reprompt_state_choose_date == "CHOOSE_DATE"
\* The state returned after "Введите другое время".
reprompt_state == "INPUT_TIME"

\* hour > 23, with the check left out
hour_invalid_never(hour) == FALSE
\* hour > 23
hour_invalid(hour) == hour > 23

\* A text that is no time, or whose hour is above 23, is answered with a
\* hint and the step stays; nothing is recorded.
input_time_handler(upd) ==
    /\ Handler(conv_state, upd) = "input_time_handler"
    /\ hist.events < MaxDialogEvents
    /\ LET m == re_match(strip(upd.text))
       IN IF m = <<>> \/ (m # <<>> /\ hour_invalid(m[1].hour))
          THEN /\ conv_state' = "INPUT_TIME"
               /\ hist' = Ended(Handled, "bad_time")
               /\ UNCHANGED <<user_data, chat>>
          ELSE IF "event_date" \notin DOMAIN user_data
          THEN /\ conv_state' = "END"
               /\ hist' = Ended(Handled, "failed")
               /\ UNCHANGED <<user_data, chat>>
          ELSE IF lead_time_violated(WallClock(user_data["event_date"], m[1].hour, m[1].minute))
          THEN /\ conv_state' = reprompt_state
               /\ hist' = Ended(Handled, "too_soon")
               /\ UNCHANGED <<user_data, chat>>
          ELSE /\ user_data' = Track(Put(Put(user_data, "event_hour", m[1].hour),
                                         "event_minute", m[1].minute), chat.next)
               /\ chat' = Sent(chat)
               /\ conv_state' = "INPUT_TEXT"
               /\ hist' = [Ended(Handled, "none") EXCEPT !.checkedAt = LocalNow]
    /\ UNCHANGED notes
    /\ DialogFrame

\* ---- input_text_handler
\* The preview is sent and tracked, and it is the final message for now.
input_text_handler(upd) ==
    /\ Handler(conv_state, upd) = "input_text_handler"
    /\ hist.events < MaxDialogEvents
    /\ LET text == strip(upd.text)
       IN IF text = ""
          THEN /\ conv_state' = "INPUT_TEXT"
               /\ hist' = Ended(Handled, "empty_text")
               /\ UNCHANGED <<user_data, chat>>
          ELSE /\ user_data' = Put(Track(Put(user_data, "event_text", text), chat.next),
                                   "final_message_id", chat.next)
               /\ chat' = Sent(chat)
               /\ conv_state' = "CONFIRM"
               /\ hist' = Ended(Handled, "none")
    /\ UNCHANGED notes
    /\ DialogFrame

\* ---- callback_confirm_save
\* remind_utc, with the event instant itself as the notify instant
remind_utc_at_event(u) == astimezone_utc(event_dt(u))
\* remind_at = event_dt - timedelta(days=1); remind_utc = remind_at.astimezone(UTC)
remind_utc(u) == astimezone_utc(event_dt(u) - Day)

\* all([ev_date, hour is not None, minute is not None, text, channel_id])
Complete(u) ==
    /\ {"event_date", "event_hour", "event_minute"} \subseteq DOMAIN u
    /\ strip(Get(u, "event_text", "")) # ""
    /\ Get(u, "target_channel_id", 0) # 0

\* callback_confirm_save keeping the confirmation open, with no cleanup,
\* when db_add_note fails.
callback_confirm_save_retry(upd) ==
    /\ Handler(conv_state, upd) = "callback_confirm_save"
    /\ hist.events < MaxDialogEvents
    /\ IF upd.data.kind = "CANCEL"
       THEN /\ cleanup_messages(user_data, chat, TRUE)
            /\ conv_state' = "END"
            /\ hist' = Ended(Handled, "cancelled")
            /\ UNCHANGED notes
       ELSE IF ~Complete(user_data)
       THEN /\ cleanup_messages(user_data, chat, TRUE)
            /\ conv_state' = "END"
            /\ hist' = Ended(Handled, "failed")
            /\ UNCHANGED notes
       ELSE \/ LET u == Put(user_data, "final_message_id", chat.next)
               IN /\ notes' = add_note(notes, user_data["target_channel_id"],
                                       remind_utc(user_data))
                  /\ cleanup_messages(u, Sent(chat), TRUE)
                  /\ conv_state' = "END"
                  /\ hist' = Ended(Handled, "saved")
            \/ /\ conv_state' = "CONFIRM"
               /\ hist' = Ended(Handled, "db_error")
               /\ UNCHANGED <<notes, user_data, chat>>
    /\ DialogFrame

\* Cancel: cleanup and END.  Save: db_add_note, then the final message
\* (sent, not tracked), cleanup and END; a failing db_add_note and
\* incomplete data end the session with cleanup and nothing stored.
callback_confirm_save(upd) ==
    /\ Handler(conv_state, upd) = "callback_confirm_save"
    /\ hist.events < MaxDialogEvents
    /\ conv_state' = "END"
    /\ IF upd.data.kind = "CANCEL"
       THEN /\ cleanup_messages(user_data, chat, TRUE)
            /\ hist' = Ended(Handled, "cancelled")
            /\ UNCHANGED notes
       ELSE IF ~Complete(user_data)
       THEN /\ cleanup_messages(user_data, chat, TRUE)
            /\ hist' = Ended(Handled, "failed")
            /\ UNCHANGED notes
       ELSE \/ LET u == Put(user_data, "final_message_id", chat.next)
               IN /\ notes' = add_note(notes, user_data["target_channel_id"],
                                       remind_utc(user_data))
                  /\ cleanup_messages(u, Sent(chat), TRUE)
                  /\ hist' = Ended(Handled, "saved")
            \/ /\ cleanup_messages(user_data, chat, TRUE)
               /\ hist' = Ended(Handled, "db_error")
               /\ UNCHANGED notes
    /\ DialogFrame

\* ---- cancel_handler
cancel_handler(upd) ==
    /\ Handler(conv_state, upd) = "cancel_handler"
    /\ hist.events < MaxDialogEvents
    /\ cleanup_messages(user_data, chat, TRUE)
    /\ conv_state' = "END"
    /\ hist' = Ended(Handled, "cancelled")
    /\ UNCHANGED notes
    /\ DialogFrame

\* ---- an update no handler of the conversation takes
no_handler(upd) ==
    /\ Handler(conv_state, upd) = "none"
    /\ hist.events < MaxDialogEvents
    /\ Stay(upd)
    /\ UNCHANGED notes
    /\ DialogFrame

\* ---- conversation_timeout
\* No update for 30 minutes in a running conversation: the handlers of the
\* TIMEOUT state run (there are none) and the conversation ends.
conversation_timeout ==
    /\ conv_state # "END"
    /\ hist.events < MaxDialogEvents
    /\ now' = now + ConversationTimeout
    /\ conv_state' = "END"
    /\ hist' = Ended(Handled, "timeout")
    /\ UNCHANGED <<user_data, chat, notes, sched, dispatched, markHist, markUnknown, post>>

\* ---- the clock while the dialog runs
Wait ==
    /\ hist.events < MaxDialogEvents
    /\ now' = now + 1
    /\ hist' = Handled
    /\ UNCHANGED <<conv_state, user_data, chat, notes, sched, dispatched, markHist, markUnknown, post>>

\* ---- the dialog on its own
StartCommand == \E upd \in Updates : start_command(upd)
CallbackCalendar == \E upd \in Updates : callback_calendar(upd)
InputTime == \E upd \in Updates : input_time_handler(upd)
InputText == \E upd \in Updates : input_text_handler(upd)
CallbackConfirmSave == \E upd \in Updates : callback_confirm_save(upd)
CancelCommand == \E upd \in Updates : cancel_handler(upd)
NoHandler == \E upd \in Updates : no_handler(upd)

NextDialog ==
    \/ Wait
    \/ StartCommand
    \/ CallbackCalendar
    \/ InputTime
    \/ InputText
    \/ CallbackConfirmSave
    \/ CancelCommand
    \/ NoHandler
    \/ conversation_timeout

SpecDialog == Init /\ [][NextDialog]_vars

\* ------------------------------------------------ the store on its own
\* The store's operations called directly, with any arguments.
MaxMarkCalls == 2

StoreCreate ==
    /\ Len(notes) < MaxEvents
    /\ \E user_id \in Chats, reminder_date \in {now} :
          notes' = add_note(notes, user_id, reminder_date)
    /\ UNCHANGED <<now, sched, dispatched, markHist, markUnknown, dialog, post>>

StoreMark ==
    \E id \in 1..(Len(notes) + 1) :
        /\ id \in DOMAIN notes => Len(markHist[id]) < MaxMarkCalls
        /\ notes' = mark_reminder_sent(notes, id)
        /\ LogMark(notes, id)
        /\ UNCHANGED <<now, sched, dispatched, dialog, post>>

NextStore ==
    \/ StoreCreate
    \/ StoreMark

SpecStore == Init /\ [][NextStore]_vars

\* =========================================================== claims

\* C1: over the ticks of one entry point a note's notification is sent at
\* most once: no entry point sends a note it has already sent.
C1_NeverSentTwice == \A d \in dispatched : d.nth = 1

\* The notes an entry point has sent in the tick it is running.
SentInTick(s) == sched[s].attempted \ sched[s].failed

\* C2: two entry points whose ticks run at the same time never both send
\* the notification of the same note.
C2_OneDispatcherPerNote ==
    \A s1, s2 \in Schedulers :
        (s1 # s2 /\ sched[s1].pc # "idle" /\ sched[s2].pc # "idle")
            => SentInTick(s1) \cap SentInTick(s2) = {}

\* C3: a note is marked sent only after a send of it succeeded; a tick never
\* calls mark_reminder_sent for a note whose send failed in it, and such a
\* note is still unsent unless another entry point has sent it.
C3_MarkOnlyAfterSend ==
    /\ \A n \in DOMAIN notes :
          notes[n].reminder_sent => \E d \in dispatched : d.note = n
    /\ \A s \in Schedulers :
          /\ sched[s].failed \cap (sched[s].marked \cup sched[s].raised) = {}
          /\ \A n \in sched[s].failed :
                notes[n].reminder_sent
                    => \E d \in dispatched : d.note = n /\ d.by # s

C3_Witness ==
    \E s \in Schedulers : \E n \in sched[s].failed : \E m \in sched[s].marked :
        /\ sched[s].pc = "idle"
        /\ ~notes[n].reminder_sent
        /\ notes[m].reminder_sent

\* C4: a failed send or a failed mark_reminder_sent does not end the tick:
\* when the tick is over every note the query returned has been attempted,
\* and while it runs every note before the current one has been.
C4_TickAttemptsAll ==
    \A s \in Schedulers :
        /\ sched[s].pc = "idle" => sched[s].attempted = Range(sched[s].upcoming)
        /\ sched[s].pc # "idle" =>
              {sched[s].upcoming[k] : k \in 1..(sched[s].i - 1)} \subseteq sched[s].attempted

C4_Witness ==
    /\ \E s \in Schedulers :
          /\ sched[s].pc = "idle" /\ Len(sched[s].upcoming) = 2
          /\ sched[s].upcoming[1] \in sched[s].failed
          /\ sched[s].upcoming[2] \in sched[s].attempted
    /\ \E s \in Schedulers :
          /\ sched[s].pc = "idle" /\ Len(sched[s].upcoming) = 2
          /\ sched[s].upcoming[1] \in sched[s].raised
          /\ sched[s].upcoming[2] \in sched[s].attempted

\* C5: a note is created unsent, and once reminder_sent is true it stays
\* true: no step removes a note or turns the flag back to false.
C5_DeliveredNeverReverts ==
    [][/\ \A n \in DOMAIN notes :
             /\ n \in DOMAIN notes'
             /\ notes[n].reminder_sent => notes'[n].reminder_sent
       /\ \A n \in DOMAIN notes' \ DOMAIN notes : ~notes'[n].reminder_sent]_vars

C5_Witness ==
    \E n \in DOMAIN notes :
        /\ notes[n].reminder_sent
        /\ Len(markHist[n]) >= 2
        /\ \E s \in Schedulers : n \in sched[s].failed

\* C6: mark_reminder_sent is idempotent: on an existing note the first call
\* returns true and sets reminder_sent, every later call returns false; a
\* call on an unknown id returns false; a call that returns false changes
\* nothing.
C6_MarkIdempotent ==
    /\ [](/\ \A id \in Ids :
               markHist[id] # <<>> =>
                   /\ id \in DOMAIN notes /\ notes[id].reminder_sent
                   /\ markHist[id][1]
                   /\ \A k \in 2..Len(markHist[id]) : ~markHist[id][k]
          /\ markUnknown \subseteq {FALSE})
    /\ [][/\ \A id \in Ids :
               (Len(markHist'[id]) > Len(markHist[id])
                    /\ ~markHist'[id][Len(markHist'[id])]) => notes' = notes
          /\ markUnknown' # markUnknown => notes' = notes]_vars

C6_Witness ==
    /\ markUnknown = {FALSE}
    /\ \E id \in DOMAIN notes : markHist[id] = <<TRUE, FALSE>>

\* A step that starts a tick of entry point s.
StartsTick(s) == sched'[s].tick = sched[s].tick + 1

\* C7: every entry point's window starts before now, so a missed note (due
\* in the past, still unsent) is returned by every entry point's query.
C7_MissedStillEligible ==
    [][\A s \in Schedulers :
          (StartsTick(s) /\ ~sched'[s].qfail) =>
              \A n \in DOMAIN notes :
                  (~notes[n].reminder_sent /\ notes[n].reminder_date = now - 1)
                      => n \in Range(sched'[s].upcoming)]_vars

\* The job's window at the instant t holds the due instant of note n.
InJobWindow(n, t) ==
    /\ t - JobLookback <= notes[n].reminder_date
    /\ notes[n].reminder_date <= t + JobLookahead

C10_SentToOwner == \A d \in dispatched : d.chat = notes[d.note].user_id

\* ================================================ claims on the dialog

\* C11: a date and time whose event instant is less than a day after the
\* moment the time is entered never bring the dialog to the text or the
\* confirmation step, and nothing is stored for them.
C11_LeadTimeEnforced ==
    /\ [](conv_state \in {"INPUT_TEXT", "CONFIRM"}
            => event_dt(user_data) >= hist.checkedAt + Day)
    /\ [][notes' # notes
            => (conv_state = "CONFIRM" /\ event_dt(user_data) >= hist.checkedAt + Day)]_vars

\* A time was entered that is too soon for the chosen day.
C11_Witness ==
    /\ hist.outcome = "too_soon"
    /\ conv_state \notin {"INPUT_TEXT", "CONFIRM"}
    /\ notes = <<>>

\* The step in which input_time_handler rejects a time as too soon.
TooSoonStep == hist'.events # hist.events /\ hist'.outcome = "too_soon"
\* The step in which input_time_handler accepts a time.
TimeAcceptedStep == conv_state = "INPUT_TIME" /\ "event_hour" \in DOMAIN user_data'

CancelHandlers == {"callback_calendar", "callback_confirm_save", "cancel_handler"}

\* C13: in every state of a running dialog a cancel request, button or
\* /cancel, is taken by a handler that cancels, and it is never taken as
\* the text of the reminder.
C13_CancelAlwaysAccepted ==
    /\ [](conv_state # "END" =>
            \A upd \in Updates :
                IsCancel(upd) => Handler(conv_state, upd) \in CancelHandlers)
    /\ [][(conv_state = "INPUT_TEXT" /\ conv_state' = "CONFIRM")
            => user_data'["event_text"] # "/cancel"]_vars

\* The step in which the session ends with the given outcome.
EndsStep(outcome) ==
    conv_state # "END" /\ conv_state' = "END" /\ hist'.outcome = outcome
\* The final message of user_data u, if it has one.
FinalId(u) == IF "final_message_id" \in DOMAIN u THEN {u["final_message_id"]} ELSE {}

\* C14: when a session ends saved or cancelled, delete_message has been
\* called for every tracked message but the final one, never for the final
\* one, and the list of tracked messages is empty.
C14_CleanupOnEnd ==
    [][(EndsStep("saved") \/ EndsStep("cancelled")) =>
          /\ (Range(user_data["msg_ids"]) \ FinalId(user_data')) \subseteq chat'.retracted
          /\ FinalId(user_data') \cap chat'.retracted = {}
          /\ user_data'["msg_ids"] = <<>>]_vars

\* A saved session: its three tracked messages got their delete_message
\* call and the final message is on display.
C14_Witness ==
    /\ conv_state = "END"
    /\ hist.outcome = "saved"
    /\ user_data["msg_ids"] = <<>>
    /\ Cardinality(chat.retracted) = 3
    /\ user_data["final_message_id"] \in chat.live \ chat.retracted

\* C15: a running session that sees no update for 30 minutes ends, and
\* its tracked messages get the cleanup of an explicit cancel.
C15_TimeoutCleansUp ==
    [][EndsStep("timeout") =>
          /\ (Range(user_data["msg_ids"]) \ FinalId(user_data')) \subseteq chat'.retracted
          /\ user_data'["msg_ids"] = <<>>]_vars

\* The step in which /start notify_<id> opens a session.
StartStep == hist'.sessions = hist.sessions + 1

\* C16: when /start notify_<id> replaces a running session, delete_message
\* is called for every message the replaced session was tracking.
C16_ReplacedSessionCleaned ==
    [][(StartStep /\ conv_state # "END")
          => Range(user_data["msg_ids"]) \subseteq chat'.retracted]_vars

\* C17: starting a session for another destination leaves the data of the
\* running session (destination, day, time, text, tracked messages) as
\* they were.
C17_SessionsIsolated ==
    [][(/\ StartStep
        /\ conv_state # "END"
        /\ user_data'["target_channel_id"] # user_data["target_channel_id"])
          => \A k \in DOMAIN user_data :
                k \in DOMAIN user_data' /\ user_data'[k] = user_data[k]]_vars

\* The step in which a handler gives the named answer.
AnswerStep(outcome) == hist'.events # hist.events /\ hist'.outcome = outcome

\* C18: at the choice of the date a day outside [today + 1, today + 365]
\* and a change of the month leave the dialog there with its data as they
\* were; the dialog goes on to the time only with a day of that range as
\* the session's day.
C18_ChooseDateFrame ==
    /\ [](conv_state = "CHOOSE_DATE" => "event_date" \notin DOMAIN user_data)
    /\ [][/\ (AnswerStep("out_of_range") \/ AnswerStep("navigated"))
                => (conv_state' = "CHOOSE_DATE" /\ user_data' = user_data)
          /\ (conv_state = "CHOOSE_DATE" /\ conv_state' = "INPUT_TIME")
                => /\ user_data' = Put(user_data, "event_date", user_data'["event_date"])
                   /\ user_data'["event_date"] >= today + MinDateAhead
                   /\ user_data'["event_date"] <= today + MaxDateAhead]_vars

\* A day out of range was turned down and the calendar is still shown.
C18_Witness ==
    /\ hist.outcome = "out_of_range"
    /\ conv_state = "CHOOSE_DATE"
    /\ "event_date" \notin DOMAIN user_data

\* C19: at the text step a message of white space leaves the dialog there
\* with its data as they were; a text that is not empty becomes the
\* session's text and brings the dialog to the confirmation.
C19_EnterTextFrame ==
    /\ [](conv_state = "INPUT_TEXT" => "event_text" \notin DOMAIN user_data)
    /\ [][/\ AnswerStep("empty_text")
                => (conv_state' = "INPUT_TEXT" /\ user_data' = user_data)
          /\ (conv_state = "INPUT_TEXT" /\ "event_text" \in DOMAIN user_data')
                => /\ conv_state' = "CONFIRM"
                   /\ user_data'["event_text"] \in Texts \ {"", " "}]_vars

\* A message of white space was turned down and the text is still awaited.
C19_Witness ==
    /\ hist.outcome = "empty_text"
    /\ conv_state = "INPUT_TEXT"
    /\ "event_text" \notin DOMAIN user_data

\* C20: Save at the confirmation stores exactly one note, owned by the
\* session's destination and due 24 hours before the event's instant in
\* UTC, and the session ends saved; no session ends saved otherwise.
C20_SaveCreates ==
    [][/\ notes' # notes =>
             /\ conv_state = "CONFIRM"
             /\ notes' = Append(notes,
                    [user_id |-> user_data["target_channel_id"],
                     reminder_date |-> (event_dt(user_data) - TzOffset) - Day,
                     reminder_sent |-> FALSE])
             /\ EndsStep("saved")
       /\ EndsStep("saved") => notes' # notes]_vars

\* A session for destination 2 was saved; its note is the last one stored.
C20_Witness ==
    /\ hist.outcome = "saved"
    /\ notes # <<>>
    /\ notes[Len(notes)].user_id = 2
    /\ notes[Len(notes)].reminder_date = event_dt(user_data) - TzOffset - Day

\* ========================================== claims on channel posts

\* The step in which a channel post is handled.
PostStep == post'.by # "none" /\ (post' # post \/ notes' # notes)

\* C21: a channel post is stored only if it carries the tag #напоминание:
\* no post without the tag adds a note.
C21_TagRequired == [][notes' # notes => post'.tag]_vars

\* A post without the tag, with a valid date far enough ahead, was handled
\* and nothing is stored.
C21_Witness ==
    /\ post.by = "main"
    /\ ~post.tag
    /\ post.dt.kind = "valid"
    /\ post.dt.at >= now + Day
    /\ notes = <<>>

\* C22: a post whose date/time token strptime rejects stores nothing and
\* is answered with an error.
C22_MalformedSurfaced ==
    [][(PostStep /\ post'.tag /\ post'.dt.kind = "malformed")
          => (notes' = notes /\ post'.reply = "error")]_vars

\* C23: a post with the tag and without a date/time token is stored as a
\* plain note.
C23_PlainNoteStored ==
    [][(PostStep /\ post'.tag /\ post'.dt.kind = "none")
          => Len(notes') = Len(notes) + 1]_vars

\* C29: main.py's channel path stores a post only when its event is at
\* least one day after the handling instant; the note stored is due one
\* day before the event, which is not before the handling instant. A post
\* with an earlier event is answered with the rejection and stores nothing.
C29_ChannelLeadTime ==
    [][(PostStep /\ post'.by = "main") =>
          /\ notes' # notes =>
                /\ post'.dt.kind = "valid"
                /\ post'.dt.at >= now + Day
                /\ notes' = Append(notes, [user_id |-> post'.chat,
                                           reminder_date |-> post'.dt.at - Day,
                                           reminder_sent |-> FALSE])
                /\ notes'[Len(notes')].reminder_date >= now
          /\ (post'.tag /\ post'.dt.kind = "valid" /\ post'.dt.at < now + Day) =>
                /\ notes' = notes
                /\ post'.reply = "too_soon"]_vars

\* A post handled by main.py was stored, due exactly at the handling
\* instant or later.
C29_Witness ==
    /\ post.by = "main"
    /\ post.reply = "saved"
    /\ Len(notes) = 1
    /\ notes[1].reminder_date = post.dt.at - Day
    /\ notes[1].reminder_date <= now

\* ================================= claims on a failing window query

\* The window of the entry points whose query is inside a try.
GuardedWindow(s) ==
    IF s = "job" THEN <<now - JobLookback, now + JobLookahead>>
    ELSE <<now - CronLookback, now + CronLookahead>>

\* C24: when the window query of a tick of the job or of the cron function
\* fails, the tick ends at once: nothing is dispatched, nothing is marked,
\* no note changes and the entry point is idle again; the tick after a
\* failed one queries its whole window as any tick does.
C24_QueryFailureAbortsTick ==
    /\ [](\A s \in {"job", "cron"} : sched[s].qfail =>
             /\ sched[s].pc = "idle"
             /\ sched[s].upcoming = <<>>
             /\ sched[s].attempted = {}
             /\ sched[s].marked = {})
    /\ [][\A s \in {"job", "cron"} :
             /\ (StartsTick(s) /\ sched'[s].qfail) =>
                   /\ dispatched' = dispatched
                   /\ notes' = notes
                   /\ markHist' = markHist
             /\ (sched[s].qfail /\ StartsTick(s) /\ ~sched'[s].qfail) =>
                   sched'[s].upcoming =
                       get_upcoming_reminders_window(notes, GuardedWindow(s)[1],
                                                     GuardedWindow(s)[2], TRUE)]_vars

\* The query of a tick of the job failed while a note was due and unsent;
\* nothing was dispatched.
C24_Witness ==
    /\ sched["job"].qfail
    /\ \E n \in DOMAIN notes : ~notes[n].reminder_sent /\ InJobWindow(n, now)
    /\ dispatched = {}

\* ============================== further claims on the dialog's end

\* A step in which a delete_message call of cleanup_messages failed: the
\* message was asked to be deleted and is still on display.
DeleteFailedStep ==
    \E mid \in chat'.retracted \ chat.retracted : mid \in chat'.live

\* C25: a failing delete_message raises nothing: in a step in which one
\* fails, every other tracked message but the final one still gets its
\* delete_message call, the list of tracked messages is emptied and the
\* session ends.
C25_RetractionBestEffort ==
    [][DeleteFailedStep =>
          /\ (Range(user_data["msg_ids"]) \ FinalId(user_data')) \subseteq chat'.retracted
          /\ user_data'["msg_ids"] = <<>>
          /\ conv_state' = "END"
          /\ hist'.outcome \in {"saved", "cancelled", "failed", "db_error"}]_vars

\* A cancelled session: the delete of the first of its two tracked
\* messages failed and the second one is gone all the same.
C25_Witness ==
    /\ conv_state = "END"
    /\ hist.outcome = "cancelled"
    /\ user_data["msg_ids"] = <<>>
    /\ \E a, b \in chat.retracted :
          /\ a < b
          /\ a \in chat.live
          /\ b \notin chat.live

C27_DueNotBeforeSave ==
    [][notes' # notes => notes'[Len(notes')].reminder_date >= now]_vars

\* The step in which db_add_note fails at Save.
DbFailedStep ==
    conv_state # "END" /\ hist'.events # hist.events /\ hist'.outcome = "db_error"

\* C28: when db_add_note fails at Save no note is created, the tracked
\* messages but the final one get their delete_message call, the list of
\* tracked messages is emptied and the session ends.
C28_SaveFailureEnds ==
    [][DbFailedStep =>
          /\ conv_state = "CONFIRM"
          /\ Complete(user_data)
          /\ notes' = notes
          /\ (Range(user_data["msg_ids"]) \ FinalId(user_data')) \subseteq chat'.retracted
          /\ user_data'["msg_ids"] = <<>>
          /\ conv_state' = "END"]_vars

\* A session ended by a failing db_add_note: nothing stored, the prompts
\* got their delete_message call.
C28_Witness ==
    /\ hist.outcome = "db_error"
    /\ conv_state = "END"
    /\ notes = <<>>
    /\ user_data["msg_ids"] = <<>>
    /\ Cardinality(chat.retracted) = 2

\* The step in which input_time_handler turns a text down as no time.
BadTimeStep == hist'.events # hist.events /\ hist'.outcome = "bad_time"

\* C30: the time step is left for the text step only with an hour in
\* 0..23 and a minute in 0..59 recorded; while the dialog is at the time
\* step no hour and no minute is recorded, and a text turned down keeps
\* the step and the data.
C30_TimeInRange ==
    /\ [](conv_state = "INPUT_TIME" =>
             {"event_hour", "event_minute"} \cap DOMAIN user_data = {})
    /\ [][(conv_state = "INPUT_TIME" /\ conv_state' = "INPUT_TEXT") =>
             /\ user_data'["event_hour"] \in 0..23
             /\ user_data'["event_minute"] \in 0..59]_vars
    /\ [][BadTimeStep =>
             /\ conv_state = "INPUT_TIME"
             /\ conv_state' = "INPUT_TIME"
             /\ user_data' = user_data]_vars

\* A text was turned down at the time step; no hour is recorded.
C30_Witness ==
    /\ hist.outcome = "bad_time"
    /\ conv_state = "INPUT_TIME"
    /\ "event_date" \in DOMAIN user_data
    /\ "event_hour" \notin DOMAIN user_data

Next ==
    \/ Advance
    \/ ChannelPost
    \/ LegacyChannelPost
    \/ send_reminders_job_query
    \/ send_reminders_job_send
    \/ send_reminders_job_mark
    \/ send_reminders_query
    \/ send_reminders_send
    \/ send_reminders_mark
    \/ main_query
    \/ main_send
    \/ main_mark
    \/ check_reminders_query
    \/ check_reminders_send
    \/ check_reminders_mark

Spec == Init /\ [][Next]_vars

====
